---- MODULE Spec2Model ----
(***************************************************************************)
(* BooksApiService: the catalog client with its in-memory TTL cache, the   *)
(* normalization of raw catalog records, and the cache-key derivation.     *)
(*                                                                         *)
(* JavaScript values are tagged records [t |-> type, v |-> payload].  A    *)
(* string is a sequence of one-character tokens, so that trim, template    *)
(* literals, join and the year regular expression are computed on text:    *)
(* text the code inspects (queries, identifiers, dates, cache keys) has    *)
(* one character per token.  Time is counted in ticks of the clock.        *)
(***************************************************************************)
EXTENDS Integers, Sequences, FiniteSets, Bags, TLC

(***************************************************************************)
(* JavaScript values                                                       *)
(***************************************************************************)
Undefined == [t |-> "undefined"]
Null == [t |-> "null"]
Str(s) == [t |-> "string", v |-> s]
Num(n) == [t |-> "number", v |-> n]
Arr(a) == [t |-> "array", v |-> a]
Obj(o) == [t |-> "object", v |-> o]
Bool(b) == [t |-> "boolean", v |-> b]
\* The outcome of an expression that throws (a TypeError).
Throws == [t |-> "throws"]

\* ToBoolean: what `!x`, `x || y` and filter(Boolean) test.
Truthy(x) ==
  CASE x.t = "undefined" -> FALSE
    [] x.t = "null" -> FALSE
    [] x.t = "string" -> x.v # <<>>
    [] x.t = "number" -> x.v # 0
    [] x.t = "boolean" -> x.v
    [] OTHER -> TRUE

\* a || b
Or(a, b) == IF Truthy(a) THEN a ELSE b

\* o.f : undefined when o is not an object or has no such property.  The
\* callers only read properties of non-nullish values.
Get(o, f) == IF o.t = "object" /\ f \in DOMAIN o.v THEN o.v[f] ELSE Undefined

Digit == <<"0", "1", "2", "3", "4", "5", "6", "7", "8", "9">>
IsDigit(c) == \E d \in 1..10 : Digit[d] = c
DigitValue(c) == (CHOOSE d \in 1..10 : Digit[d] = c) - 1

\* String(n) for a non-negative integer, as a template literal prints it.
RECURSIVE NumberToString(_)
NumberToString(n) == IF n < 10 THEN <<Digit[n + 1]>>
                     ELSE NumberToString(n \div 10) \o <<Digit[(n % 10) + 1]>>

IsSpace(c) == c = " "

\* The two ends of String.prototype.trim
RECURSIVE TrimLeft(_)
TrimLeft(s) == IF s # <<>> /\ IsSpace(Head(s)) THEN TrimLeft(Tail(s)) ELSE s
RECURSIVE TrimRight(_)
TrimRight(s) == IF s # <<>> /\ IsSpace(s[Len(s)])
                THEN TrimRight(SubSeq(s, 1, Len(s) - 1)) ELSE s
\* String.prototype.trim
Trim(s) == TrimRight(TrimLeft(s))

(***************************************************************************)
(* Normalization of raw catalog records (transformBookData)                *)
(***************************************************************************)

\* What Array.prototype.join makes of one element.
ElementToString(e) ==
  CASE e.t = "string" -> e.v
    [] e.t = "number" -> NumberToString(e.v)
    [] e.t = "undefined" -> <<>>
    [] e.t = "null" -> <<>>
    [] OTHER -> <<"[object Object]">>

\* Array.prototype.join(sep) on the elements a.
RECURSIVE Join(_, _)
Join(a, sep) ==
  IF a = <<>> THEN <<>>
  ELSE IF Len(a) = 1 THEN ElementToString(a[1])
  ELSE ElementToString(a[1]) \o sep \o Join(Tail(a), sep)

\* The first index of s at which four digits stand in a row, 0 when none:
\* the match of /(\d{4})/.
FirstYearAt(s) ==
  LET hits == {i \in 1..(Len(s) - 3) : \A j \in 0..3 : IsDigit(s[i + j])}
  IN IF hits = {} THEN 0 ELSE CHOOSE i \in hits : \A j \in hits : i <= j

\* extractYear(dateString): Throws is the TypeError of calling .match on a
\* value that is not a string.
extractYear(dateString) ==
  IF ~Truthy(dateString) THEN Null
  ELSE IF dateString.t # "string" THEN Throws
  ELSE LET s == dateString.v
           i == FirstYearAt(s)
       IN IF i = 0 THEN Null
          ELSE Num(1000 * DigitValue(s[i]) + 100 * DigitValue(s[i + 1])
                   + 10 * DigitValue(s[i + 2]) + DigitValue(s[i + 3]))

IsIsbnEntry(id) ==
  \/ Get(id, "type") = Str(<<"ISBN_13">>)
  \/ Get(id, "type") = Str(<<"ISBN_10">>)

IsNullish(x) == x.t \in {"undefined", "null"}

\* A find that finds nothing.
FindIsbnNone(ids) == 0

\* industryIdentifiers.find(id => id.type === 'ISBN_13' || id.type ===
\* 'ISBN_10'): the index found, 0 when none.
FindIsbn(ids) ==
  LET hits == {i \in 1..Len(ids) : IsIsbnEntry(ids[i])}
  IN IF hits = {} THEN 0 ELSE CHOOSE i \in hits : \A j \in hits : i <= j

\* The find callback reads id.type, a TypeError on a null or undefined
\* element that is visited (find stops at the first match).
FindThrows(ids) ==
  \E i \in 1..Len(ids) :
     /\ IsNullish(ids[i])
     /\ FindIsbn(ids) = 0 \/ i < FindIsbn(ids)

\* A time stamp that does not move with the clock.
toISOStringFrozen(now) == Str(<<"T">>)

\* new Date().toISOString() at time now.
toISOString(now) == Str(<<"T">> \o NumberToString(now))

FirstTruthy4(a, b, c, d, e) == Or(Or(Or(Or(a, b), c), d), e)

transformBookData(book, now) ==
  IF ~Truthy(book) \/ ~Truthy(Get(book, "id")) THEN Null
  ELSE
    LET imageLinks == Or(Get(book, "imageLinks"), Obj([none |-> Undefined]))
        portadaUrl == FirstTruthy4(Get(imageLinks, "thumbnail"),
                                   Get(imageLinks, "smallThumbnail"),
                                   Get(imageLinks, "medium"),
                                   Get(imageLinks, "large"), Null)
        authors0 == Or(Get(book, "authors"), Arr(<<>>))
        autores == IF authors0.t = "string" THEN Arr(<<authors0>>) ELSE authors0
        joinThrows == autores.t # "array"
        autor == Or(Str(Join(autores.v, <<", ">>)),
                    Str(<<"Autor desconocido">>))
        categories0 == Or(Get(book, "categories"), Arr(<<>>))
        generos == IF categories0.t = "string" THEN Arr(<<categories0>>)
                   ELSE categories0
        industryIdentifiers == Or(Get(book, "industryIdentifiers"), Arr(<<>>))
        findThrows == \/ industryIdentifiers.t # "array"
                      \/ FindThrows(industryIdentifiers.v)
        found == FindIsbn(industryIdentifiers.v)
        isbn == Or(IF found = 0 THEN Undefined
                   ELSE Get(industryIdentifiers.v[found], "identifier"), Null)
        year == extractYear(Get(book, "publishedDate"))
    IN IF joinThrows \/ findThrows \/ year = Throws THEN Null
       ELSE Obj([bookId |-> Get(book, "id"),
                 titulo |-> Or(Get(book, "title"), Str(<<"Titulo no disponible">>)),
                 autor |-> autor,
                 portadaUrl |-> portadaUrl,
                 imageLinks |-> Obj([thumbnail |-> Get(imageLinks, "thumbnail"),
                                     small |-> Get(imageLinks, "smallThumbnail"),
                                     medium |-> Get(imageLinks, "medium"),
                                     large |-> Get(imageLinks, "large")]),
                 sinopsis |-> Or(Get(book, "description"), Null),
                 anoPublicacion |-> year,
                 fechaPublicacion |-> Or(Get(book, "publishedDate"), Null),
                 editorial |-> Or(Get(book, "publisher"), Null),
                 idioma |-> Or(Get(book, "language"), Str(<<"es">>)),
                 numeroPaginas |-> Or(Get(book, "pageCount"), Null),
                 generos |-> generos,
                 categorias |-> Or(Get(book, "categories"), Arr(<<>>)),
                 isbn |-> isbn,
                 industryIdentifiers |-> industryIdentifiers,
                 previewLink |-> Or(Get(book, "previewLink"), Null),
                 infoLink |-> Or(Get(book, "infoLink"), Null),
                 rating |-> Or(Get(book, "averageRating"), Null),
                 ratingsCount |-> Or(Get(book, "ratingsCount"), Num(0)),
                 transformedAt |-> toISOString(now)])

\* A filter that lets every mapped element through.
FilterNothing(b) == <<b>>

\* .filter(Boolean) on one mapped element
FilterBoolean(b) == IF Truthy(b) THEN <<b>> ELSE <<>>

\* books.map(book => this.transformBookData(book)).filter(Boolean)
RECURSIVE MapFilter(_, _)
MapFilter(books, now) ==
  IF books = <<>> THEN <<>>
  ELSE FilterBoolean(transformBookData(Head(books), now))
         \o MapFilter(Tail(books), now)

transformBooksData(books, now) ==
  IF books.t # "array" THEN Arr(<<>>) ELSE Arr(MapFilter(books.v, now))

(***************************************************************************)
(* Bounds of the model                                                     *)
(***************************************************************************)
\* The clock stops here.
MaxTime == 2
\* Calls awaiting their response at one time.
MaxInFlight == 2
\* Outbound HTTP calls issued in one behaviour.
MaxIssued == 2
\* The longest batch of raw records normalized.
MaxBatch == 2
\* The number of times one batch is normalized.
MaxRuns == 2

\* The entry count above which setCache sweeps: the source's literal 100,
\* scaled so that a behaviour of MaxIssued calls overflows it.
maxSize == 1
\* The TTLs, in ticks of the clock: the default (5 minutes in the source) and
\* the shorter one of the development configuration (1 minute).
LongTtl == 2
ShortTtl == 1

(***************************************************************************)
(* Program constants                                                       *)
(***************************************************************************)
MAX_RESULTS == 20
TIMEOUT == 10000
\* 5 * 60 * 1000 ms
DefaultCacheTimeout == LongTtl

\* The configurations the application installs (services/index.js): timeout
\* in ms, cacheTimeout in ticks.
DevelopmentConfig == [timeout |-> Num(30000), cacheTimeout |-> Num(ShortTtl)]
ProductionConfig == [timeout |-> Num(10000), cacheTimeout |-> Num(LongTtl)]
Configs == {Obj(DevelopmentConfig), Obj(ProductionConfig)}

(***************************************************************************)
(* Cache keys                                                              *)
(***************************************************************************)
\* ${x} in a template literal.
TemplateString(x) ==
  CASE x.t = "string" -> x.v
    [] x.t = "number" -> NumberToString(x.v)
    [] x.t = "null" -> <<"n", "u", "l", "l">>
    [] OTHER -> <<"u", "n", "d", "e", "f", "i", "n", "e", "d">>

\* A key that leaves maxResults out.
searchCacheKeyOfQueryOnly(cleanQuery, maxRes) ==
  <<"s", "e", "a", "r", "c", "h", "_">> \o cleanQuery

\* A key that joins the query and maxResults without a separator.
searchCacheKeyNoSeparator(cleanQuery, maxRes) ==
  <<"s", "e", "a", "r", "c", "h", "_">> \o cleanQuery \o TemplateString(maxRes)

\* `search_${cleanQuery}_${maxResults}`
searchCacheKey(cleanQuery, maxRes) ==
  <<"s", "e", "a", "r", "c", "h", "_">> \o cleanQuery \o <<"_">>
     \o TemplateString(maxRes)

\* 'all_books'
allBooksCacheKey == <<"a", "l", "l", "_", "b", "o", "o", "k", "s">>

\* `book_${bookId}`
bookCacheKey(bookId) == <<"b", "o", "o", "k", "_">> \o TemplateString(bookId)

(***************************************************************************)
(* The cache: a Map from key to {data, timestamp}                          *)
(***************************************************************************)
EmptyMap == [k \in {} |-> Null]

MapSet(m, key, e) == [k \in (DOMAIN m) \cup {key} |-> IF k = key THEN e ELSE m[k]]
MapDelete(m, key) == [k \in (DOMAIN m) \ {key} |-> m[k]]

\* A lookup that finds nothing valid, whatever the cache holds.
isValidCacheNever(c, key, t, ttl) == [isValid |-> FALSE, cache |-> c]

\* A lookup that still accepts an entry whose age equals the TTL.
isValidCacheInclusive(c, key, t, ttl) ==
  IF key \notin DOMAIN c THEN [isValid |-> FALSE, cache |-> c]
  ELSE [isValid |-> (t - c[key].timestamp) <= ttl,
        cache |-> IF (t - c[key].timestamp) <= ttl THEN c
                  ELSE [k \in (DOMAIN c) \ {key} |-> c[k]]]

\* isValidCache(key) at time t: its answer and the cache it leaves.
isValidCache(c, key, t, ttl) ==
  IF key \notin DOMAIN c THEN [isValid |-> FALSE, cache |-> c]
  ELSE LET isValid == (t - c[key].timestamp) < ttl
       IN [isValid |-> isValid,
           cache |-> IF ~isValid THEN MapDelete(c, key) ELSE c]

\* A sweep that empties the cache.
clearOldCacheAll(c, t, ttl) == [k \in {} |-> Null]

\* clearOldCache() at time t
clearOldCache(c, t, ttl) ==
  LET old == {k \in DOMAIN c : (t - c[k].timestamp) > ttl}
  IN [k \in (DOMAIN c) \ old |-> c[k]]

\* A setCache that keeps the entry a key already has.
setCacheKeepFirst(c, key, data, t, ttl) ==
  IF key \in DOMAIN c THEN c
  ELSE LET c1 == MapSet(c, key, [data |-> data, timestamp |-> t])
       IN IF Cardinality(DOMAIN c1) > maxSize THEN clearOldCache(c1, t, ttl)
          ELSE c1

\* setCache(key, data) at time t
setCache(c, key, data, t, ttl) ==
  LET c1 == MapSet(c, key, [data |-> data, timestamp |-> t])
  IN IF Cardinality(DOMAIN c1) > maxSize THEN clearOldCache(c1, t, ttl) ELSE c1

\* The length of a tick of the clock, in ms: the TTL of the development
\* configuration, a minute, is one tick.
MsPerTick == 60000

\* getCacheStats() on cache c under a TTL of ttl ticks.
getCacheStats(c, ttl) ==
  [entries |-> Cardinality(DOMAIN c), maxSize |-> maxSize,
   timeoutMinutes |-> (ttl * MsPerTick) \div (60 * 1000)]

(***************************************************************************)
(* Inputs: what callers pass and what the catalog endpoint answers         *)
(***************************************************************************)
\* The queries callers pass in the behaviours explored, and the larger set
\* the properties of single calls range over.
Queries == {Undefined, Str(<<" ", "a", " ">>), Str(<<"a", "b">>),
            Str(<<" ", "a", "b", " ">>), Num(7)}
AllQueries == Queries \cup {Null, Str(<<>>), Str(<<" ", " ", " ">>), Str(<<"a">>),
                            Str(<<"A", "b">>), Str(<<"a", " ", "b">>),
                            Str(<<"a", "b", "_", "5">>)}
MaxResultsOptions == {Undefined, Num(5)}
UseCacheOptions == {Undefined, Bool(FALSE)}
BookIds == {Undefined, Str(<<>>), Str(<<"x", "1">>)}
AllBookIds == BookIds \cup {Null, Num(0), Str(<<"x", "2">>)}
Statuses == {200, 404, 500}

IsbnEntry(type, identifier) ==
  Obj([type |-> Str(<<type>>), identifier |-> Str(<<identifier>>)])

\* The record of the spec's example scenario.
RawX1 == Obj([id |-> Str(<<"x", "1">>), title |-> Str(<<"Foo">>),
              authors |-> Str(<<"Jane Doe">>),
              industryIdentifiers |-> Arr(<<IsbnEntry("ISBN_13", "9780000000000")>>)])
RawX2 == Obj([id |-> Str(<<"x", "2">>),
              authors |-> Arr(<<Str(<<"Ann">>), Str(<<"Bob">>)>>),
              publishedDate |-> Str(<<"c", ".", "1", "9", "8", "4", "-", "0", "5">>),
              categories |-> Str(<<"Fiction">>),
              industryIdentifiers |-> Arr(<<IsbnEntry("OTHER", "q1"),
                                            IsbnEntry("ISBN_10", "0000000000"),
                                            IsbnEntry("ISBN_13", "9780000000001")>>),
              imageLinks |-> Obj([smallThumbnail |-> Str(<<"s.png">>),
                                  large |-> Str(<<"l.png">>)])])
\* A record without an identifier.
RawNoId == Obj([title |-> Str(<<"Bar">>), authors |-> Str(<<"Nobody">>)])

\* Records that have an identifier and one field of a type that
\* transformBookData cannot handle, and records whose identifier is empty.
RawBadAuthors == Obj([id |-> Str(<<"b", "1">>), authors |-> Num(5)])
RawBadDate == Obj([id |-> Str(<<"b", "2">>), publishedDate |-> Num(1999)])
RawBadIdentifiers ==
  Obj([id |-> Str(<<"b", "3">>),
       industryIdentifiers |-> Arr(<<Null, IsbnEntry("ISBN_10", "0000000000")>>)])
RawEmptyId == Obj([id |-> Str(<<>>), title |-> Str(<<"Baz">>)])
\* Records with an identifier and little else: no title, authors, date or
\* identifiers; an empty list of authors and no ISBN among the identifiers.
RawBare == Obj([id |-> Str(<<"x", "3">>)])
RawNoAuthors == Obj([id |-> Str(<<"x", "4">>), title |-> Str(<<"Qux">>),
                     authors |-> Arr(<<>>),
                     industryIdentifiers |-> Arr(<<IsbnEntry("OTHER", "q2")>>)])

\* The records a batch is drawn from, and the batches.
RawRecords == {RawX1, RawX2, RawBare, RawNoAuthors, RawNoId, RawEmptyId,
               RawBadAuthors, RawBadDate, RawBadIdentifiers, Null}
RECURSIVE SeqsUpTo(_, _)
SeqsUpTo(S, n) ==
  IF n = 0 THEN {<<>>}
  ELSE SeqsUpTo(S, n - 1)
         \cup {Append(q, x) : q \in {p \in SeqsUpTo(S, n - 1) : Len(p) = n - 1},
                               x \in S}
Batches == {Arr(q) : q \in SeqsUpTo(RawRecords, MaxBatch)}

\* response.json() of the search and catalog endpoints
CatalogBodies == {Obj([books |-> Arr(<<RawX1>>), totalItems |-> Num(7)]),
                  Obj([books |-> Arr(<<RawNoId, RawX2>>)]),
                  Null}
\* response.json() of the single-book endpoint
BookBodies == {RawX1, RawNoId}

(***************************************************************************)
(* State                                                                   *)
(***************************************************************************)
VARIABLES
  cache,         \* this.cache: key -> [data, timestamp]
  cacheTimeout,  \* this.cacheTimeout, ticks
  timeout,       \* this.timeout, ms
  maxResults,    \* this.maxResults
  now,           \* Date.now(), ticks
  userEmail,     \* this.userEmail
  calls,         \* the calls suspended in makeRequest: a bag of
                 \* [op, key, useCache, authorization, phase]
  issued,        \* the number of fetch() calls made so far
  last,          \* the latest step: [op, outcome]; a call that begins is
                 \* rejected, a hit, or awaits its request ("evicts" when
                 \* its lookup removed an entry); a call that ends has
                 \* succeeded, failed, or expired (failed on its timer)
  input,         \* the arguments drawn where a pure function is examined
  output,        \* what the function made of them, run after run
  stored         \* history: per key the latest setCache since the last
                 \* clearAllCache whose age has never reached the TTL in
                 \* force: [data, at, reconfigured]

vars == <<cache, cacheTimeout, timeout, maxResults, userEmail, now, calls,
          issued, last, stored, input, output>>

Failure(error) == [success |-> FALSE, error |-> error]

\* The history after the clock or the TTL moved: it drops an entry once its
\* age has reached the TTL in force.
Lapse(st, t, ttl) ==
  [k \in {j \in DOMAIN st : (t - st[j].at) < ttl} |-> st[k]]

\* The service as its constructor leaves it.
Constructed ==
  /\ cache = EmptyMap
  /\ cacheTimeout = DefaultCacheTimeout
  /\ timeout = TIMEOUT
  /\ maxResults = MAX_RESULTS
  /\ userEmail = Null
  /\ now = 0
  /\ calls = EmptyBag
  /\ issued = 0
  /\ last = [op |-> "none", outcome |-> "none"]
  /\ stored = EmptyMap

Init ==
  /\ Constructed
  /\ input = Undefined
  /\ output = <<>>

(***************************************************************************)
(* The public operations up to their first await.  Each is a function of   *)
(* the state and the arguments: whether the call returns at once, the      *)
(* result it then returns or the request it awaits, the cache it leaves,   *)
(* and whether it consulted the cache.                                     *)
(***************************************************************************)
\* A call that returns before any cache or network access.
ReturnEarly(result) ==
  [returns |-> TRUE, result |-> result, cache |-> cache, lookup |-> FALSE]

\* A header that is sent whether or not there is a user.
AuthorizationHeaderAlways(email) == email

\* headers['Authorization'] as makeRequest sets it: Undefined when the
\* header is left out.
AuthorizationHeader(email) == IF Truthy(email) THEN email ELSE Undefined

\* A lookup that, when a call for the key is in flight, issues no request
\* of its own and is served that call's answer.
LookupThenFetchCoalescing(op, key, useCache) ==
  IF useCache /\ (\E c \in BagToSet(calls) : c.key = key)
  THEN [returns |-> TRUE,
        result |-> [success |-> TRUE, data |-> Null, fromCache |-> TRUE],
        cache |-> cache, lookup |-> TRUE]
  ELSE IF useCache /\ isValidCache(cache, key, now, cacheTimeout).isValid
  THEN [returns |-> TRUE,
        result |-> [success |-> TRUE, data |-> cache[key].data,
                    fromCache |-> TRUE],
        cache |-> cache, lookup |-> TRUE]
  ELSE [returns |-> FALSE,
        request |-> [op |-> op, key |-> key, useCache |-> useCache,
                     authorization |-> AuthorizationHeader(userEmail),
                     phase |-> "fetch"],
        cache |-> IF useCache
                  THEN isValidCache(cache, key, now, cacheTimeout).cache
                  ELSE cache,
        lookup |-> useCache]

\* "Verificar cache" and, on a miss, makeRequest up to `await fetch(...)`.
LookupThenFetch(op, key, useCache) ==
  LET chk == IF useCache THEN isValidCache(cache, key, now, cacheTimeout)
             ELSE [isValid |-> FALSE, cache |-> cache]
  IN IF useCache /\ chk.isValid
     THEN [returns |-> TRUE,
           result |-> [success |-> TRUE, data |-> chk.cache[key].data,
                       fromCache |-> TRUE],
           cache |-> chk.cache, lookup |-> TRUE]
     ELSE [returns |-> FALSE,
           request |-> [op |-> op, key |-> key, useCache |-> useCache,
                        authorization |-> AuthorizationHeader(userEmail),
                        phase |-> "fetch"],
           cache |-> chk.cache, lookup |-> useCache]

\* `= default` of a destructured or positional parameter
Default(x, d) == IF x = Undefined THEN d ELSE x

\* searchBooks that asks for one character only.
searchBooksBeginOneCharacter(query, optMaxResults, optUseCache) ==
  IF ~Truthy(query)
  THEN ReturnEarly(Failure(<<"La busqueda debe tener al menos 2 caracteres">>))
  ELSE IF query.t # "string"
  THEN ReturnEarly(Failure(<<"Error buscando libros. Intenta de nuevo.">>))
  ELSE IF Len(Trim(query.v)) < 1
  THEN ReturnEarly(Failure(<<"La busqueda debe tener al menos 2 caracteres">>))
  ELSE LookupThenFetch("searchBooks",
                       searchCacheKey(Trim(query.v),
                                      Default(optMaxResults, Num(maxResults))),
                       Truthy(Default(optUseCache, Bool(TRUE))))

searchBooksBegin(query, optMaxResults, optUseCache) ==
  IF ~Truthy(query)
  THEN ReturnEarly(Failure(<<"La busqueda debe tener al menos 2 caracteres">>))
  ELSE IF query.t # "string"
  THEN \* query.trim is not a function: the TypeError lands in the catch
       ReturnEarly(Failure(<<"Error buscando libros. Intenta de nuevo.">>))
  ELSE IF Len(Trim(query.v)) < 2
  THEN ReturnEarly(Failure(<<"La busqueda debe tener al menos 2 caracteres">>))
  ELSE LET cleanQuery == Trim(query.v)
           maxRes == Default(optMaxResults, Num(maxResults))
           useCache == Truthy(Default(optUseCache, Bool(TRUE)))
       IN LookupThenFetch("searchBooks", searchCacheKey(cleanQuery, maxRes), useCache)

getAllBooksBegin(optUseCache) ==
  LookupThenFetch("getAllBooks", allBooksCacheKey,
                  Truthy(Default(optUseCache, Bool(TRUE))))

\* getBookDetails without its check of bookId.
getBookDetailsBeginUnchecked(bookId, optUseCache) ==
  LookupThenFetch("getBookDetails", bookCacheKey(bookId),
                  Truthy(Default(optUseCache, Bool(TRUE))))

getBookDetailsBegin(bookId, optUseCache) ==
  IF ~Truthy(bookId)
  THEN ReturnEarly(Failure(<<"ID de libro es requerido">>))
  ELSE LookupThenFetch("getBookDetails", bookCacheKey(bookId),
                       Truthy(Default(optUseCache, Bool(TRUE))))

\* The step of a call that begins as b says.
Begin(op, b) ==
  IF b.returns
  THEN /\ cache' = b.cache
       /\ last' = [op |-> op,
                   outcome |-> IF b.result.success THEN "hit" ELSE "rejected"]
       /\ UNCHANGED <<input, output, userEmail, cacheTimeout, timeout,
                      maxResults, now, calls, issued, stored>>
  ELSE /\ issued < MaxIssued
       /\ BagCardinality(calls) < MaxInFlight
       /\ cache' = b.cache
       /\ calls' = calls (+) SetToBag({b.request})
       /\ issued' = issued + 1
       /\ last' = [op |-> op,
                   outcome |-> IF b.cache = cache THEN "awaits" ELSE "evicts"]
       /\ UNCHANGED <<input, output, userEmail, cacheTimeout, timeout,
                      maxResults, now, stored>>

searchBooks(query, optMaxResults, optUseCache) ==
  Begin("searchBooks", searchBooksBegin(query, optMaxResults, optUseCache))

getAllBooks(optUseCache) == Begin("getAllBooks", getAllBooksBegin(optUseCache))

getBookDetails(bookId, optUseCache) ==
  Begin("getBookDetails", getBookDetailsBegin(bookId, optUseCache))

(***************************************************************************)
(* makeRequest: the failures it returns                                    *)
(***************************************************************************)
StatusText(status) ==
  CASE status = 404 -> <<"Not Found">>
    [] status = 500 -> <<"Internal Server Error">>
    [] OTHER -> <<"OK">>

HttpError(status) ==
  Failure(<<"Error HTTP ">> \o NumberToString(status) \o <<": ">>
          \o StatusText(status))
\* An AbortError that is reported as any other failure of fetch.
TimeoutErrorGeneric == Failure(<<"Error de conexion. Verifica tu internet.">>)

TimeoutError == Failure(<<"La peticion ha expirado. Verifica tu conexion.">>)
ConnectionError == Failure(<<"Error de conexion. Verifica tu internet.">>)

(***************************************************************************)
(* The public operations after `await this.makeRequest(...)`               *)
(***************************************************************************)
\* A catch that returns no message.
CatchMessageAbsent(op) == <<>>

CatchMessage(op) ==
  CASE op = "searchBooks" -> <<"Error buscando libros. Intenta de nuevo.">>
    [] op = "getAllBooks" -> <<"Error obteniendo catalogo de libros">>
    [] OTHER -> <<"Error obteniendo detalles del libro">>

\* The end of getBookDetails once the record is normalized.
DetailsResult(c, transformedBook) ==
  [result |-> [success |-> TRUE, data |-> transformedBook, fromCache |-> FALSE],
   put |-> c.useCache, data |-> transformedBook]

\* An end of searchBooks and getAllBooks that stores whatever useCache says.
CatalogResultAlwaysPut(c, response, transformedBooks) ==
  [result |->
     IF c.op = "searchBooks"
     THEN [success |-> TRUE, data |-> transformedBooks,
           totalItems |-> Or(Get(response.data, "totalItems"),
                             Num(Len(transformedBooks.v))),
           fromCache |-> FALSE]
     ELSE [success |-> TRUE, data |-> transformedBooks, fromCache |-> FALSE],
   put |-> TRUE, data |-> transformedBooks]

\* The end of searchBooks and getAllBooks once the batch is normalized.
CatalogResult(c, response, transformedBooks) ==
  [result |->
     IF c.op = "searchBooks"
     THEN [success |-> TRUE, data |-> transformedBooks,
           totalItems |-> Or(Get(response.data, "totalItems"),
                             Num(Len(transformedBooks.v))),
           fromCache |-> FALSE]
     ELSE [success |-> TRUE, data |-> transformedBooks, fromCache |-> FALSE],
   put |-> c.useCache, data |-> transformedBooks]

\* A failed request whose response is stored all the same.
FailedRequestStored(response) ==
  [result |-> response, put |-> TRUE, data |-> Null]

\* `if (!response.success) return response;`
FailedRequest(response) == [result |-> response, put |-> FALSE]

\* What the operation of call c does with makeRequest's answer at time t:
\* the result it returns and, when it calls setCache, the data it stores.
Continue(c, response, t) ==
  IF ~response.success THEN FailedRequest(response)
  ELSE IF c.op = "getBookDetails"
  THEN DetailsResult(c, transformBookData(response.data, t))
  ELSE IF IsNullish(response.data)
  THEN \* response.data.books throws: the catch of the operation
       [result |-> Failure(CatchMessage(c.op)), put |-> FALSE]
  ELSE CatalogResult(c, response,
         transformBooksData(Or(Get(response.data, "books"), Arr(<<>>)), t))

\* An end that sends the request again when it failed.
EndRetrying(c, k) ==
  IF k.result.success
  THEN /\ calls' = calls (-) SetToBag({c})
       /\ cache' = IF k.put THEN setCache(cache, c.key, k.data, now, cacheTimeout)
                   ELSE cache
       /\ stored' = IF k.put
                    THEN Lapse(MapSet(stored, c.key,
                                      [data |-> k.data, at |-> now,
                                       reconfigured |-> FALSE]),
                               now, cacheTimeout)
                    ELSE stored
       /\ last' = [op |-> c.op, outcome |-> "succeeded"]
       /\ UNCHANGED <<input, output, userEmail, cacheTimeout, timeout,
                      maxResults, now, issued>>
  ELSE /\ calls' = (calls (-) SetToBag({c})) (+) SetToBag({[c EXCEPT !.phase = "fetch"]})
       /\ issued' = issued + 1
       /\ last' = [op |-> c.op, outcome |-> "awaits"]
       /\ UNCHANGED <<input, output, userEmail, cache, cacheTimeout, timeout,
                      maxResults, now, stored>>

\* The step in which call c ends as k says.
End(c, k) ==
  /\ calls' = calls (-) SetToBag({c})
  /\ cache' = IF k.put THEN setCache(cache, c.key, k.data, now, cacheTimeout)
              ELSE cache
  /\ stored' = IF k.put
               THEN Lapse(MapSet(stored, c.key,
                                 [data |-> k.data, at |-> now,
                                  reconfigured |-> FALSE]),
                          now, cacheTimeout)
               ELSE stored
  /\ last' = [op |-> c.op,
              outcome |-> IF k.result.success THEN "succeeded"
                          ELSE IF k.result = TimeoutError THEN "expired"
                          ELSE "failed"]
  /\ UNCHANGED <<input, output, userEmail, cacheTimeout, timeout, maxResults,
                 now, issued>>

\* makeRequest of call c returns response and the operation runs to its end.
Settle(c, response) == End(c, Continue(c, response, now))

(***************************************************************************)
(* makeRequest: the ways its awaits end                                    *)
(***************************************************************************)
\* `await fetch(url, config)` resolves with a response of this status.
fetchResolves(c, status) ==
  /\ c \in BagToSet(calls)
  /\ c.phase = "fetch"
  /\ IF ~(status \in 200..299)
     THEN Settle(c, HttpError(status))
     ELSE /\ calls' = (calls (-) SetToBag({c}))
                         (+) SetToBag({[c EXCEPT !.phase = "json"]})
          /\ last' = [op |-> c.op, outcome |-> "awaits"]
          /\ UNCHANGED <<input, output, userEmail, cache, cacheTimeout, timeout, maxResults,
                         now, issued, stored>>

\* A timer that reports the failure and leaves the call awaiting its
\* response.
abortKeepsCall(c) ==
  /\ c \in BagToSet(calls)
  /\ c.phase = "fetch"
  /\ last' = [op |-> c.op, outcome |-> "expired"]
  /\ UNCHANGED <<input, output, userEmail, cache, cacheTimeout, timeout,
                 maxResults, now, calls, issued, stored>>

\* The timer fires first: controller.abort() rejects fetch with an AbortError.
abort(c) ==
  /\ c \in BagToSet(calls)
  /\ c.phase = "fetch"
  /\ Settle(c, TimeoutError)

\* fetch rejects: the network failed.
fetchRejects(c) ==
  /\ c \in BagToSet(calls)
  /\ c.phase = "fetch"
  /\ Settle(c, ConnectionError)

\* `await response.json()` resolves with data.
jsonResolves(c, data) ==
  /\ c \in BagToSet(calls)
  /\ c.phase = "json"
  /\ Settle(c, [success |-> TRUE, data |-> data])

\* response.json() rejects: the body is not JSON.
jsonRejects(c) ==
  /\ c \in BagToSet(calls)
  /\ c.phase = "json"
  /\ Settle(c, ConnectionError)

Bodies(op) == IF op = "getBookDetails" THEN BookBodies ELSE CatalogBodies

(***************************************************************************)
(* Administration and the clock                                            *)
(***************************************************************************)
\* A clearing that removes the expired entries only.
clearAllCacheOld ==
  /\ cache' = clearOldCache(cache, now, cacheTimeout)
  /\ stored' = stored
  /\ last' = [op |-> "clearAllCache", outcome |-> "none"]
  /\ UNCHANGED <<input, output, userEmail, cacheTimeout, timeout, maxResults,
                 now, calls, issued>>

\* A clear that also drops the calls in flight.
clearAllCacheCancelling ==
  /\ cache' = EmptyMap
  /\ stored' = EmptyMap
  /\ calls' = EmptyBag
  /\ last' = [op |-> "clearAllCache", outcome |-> "none"]
  /\ UNCHANGED <<input, output, userEmail, cacheTimeout, timeout, maxResults,
                 now, issued>>

clearAllCache ==
  /\ cache' = EmptyMap
  /\ stored' = EmptyMap
  /\ last' = [op |-> "clearAllCache", outcome |-> "none"]
  /\ UNCHANGED <<input, output, userEmail, cacheTimeout, timeout, maxResults,
                 now, calls, issued>>

updateConfiguration(config) ==
  /\ timeout' = IF Truthy(Get(config, "timeout"))
                THEN Get(config, "timeout").v ELSE timeout
  /\ maxResults' = IF Truthy(Get(config, "maxResults"))
                   THEN Get(config, "maxResults").v ELSE maxResults
  /\ cacheTimeout' = IF Truthy(Get(config, "cacheTimeout"))
                     THEN Get(config, "cacheTimeout").v ELSE cacheTimeout
  /\ stored' = Lapse([k \in DOMAIN stored |->
                        [stored[k] EXCEPT !.reconfigured = TRUE]],
                     now, cacheTimeout')
  /\ last' = [op |-> "none", outcome |-> "none"]
  /\ UNCHANGED <<input, output, userEmail, cache, now, calls, issued>>

Tick ==
  /\ now < MaxTime
  /\ now' = now + 1
  /\ stored' = Lapse(stored, now', cacheTimeout)
  /\ last' = [op |-> "none", outcome |-> "none"]
  /\ UNCHANGED <<input, output, userEmail, cache, cacheTimeout, timeout,
                 maxResults, calls, issued>>

Next ==
  \/ \E q \in Queries, m \in MaxResultsOptions, u \in UseCacheOptions :
        searchBooks(q, m, u)
  \/ \E u \in UseCacheOptions : getAllBooks(u)
  \/ \E id \in BookIds, u \in UseCacheOptions : getBookDetails(id, u)
  \/ \E c \in BagToSet(calls), status \in Statuses : fetchResolves(c, status)
  \/ \E c \in BagToSet(calls) : abort(c)
  \/ \E c \in BagToSet(calls) : fetchRejects(c)
  \/ \E c \in BagToSet(calls) : \E data \in Bodies(c.op) : jsonResolves(c, data)
  \/ \E c \in BagToSet(calls) : jsonRejects(c)
  \/ clearAllCache
  \/ \E config \in Configs : updateConfiguration(config)
  \/ Tick

Spec == Init /\ [][Next]_vars

(***************************************************************************)
(* Properties                                                              *)
(***************************************************************************)
\* A query that passes the validation of searchBooks.
ValidQuery(q) == q.t = "string" /\ Len(Trim(q.v)) >= 2

\* The cache key searchBooks derives for a valid query.
SearchKey(q, m) == searchCacheKey(Trim(q.v), Default(m, Num(maxResults)))

\* The ways of asking for the cache: useCache left out, or true.
UseCacheTrue == {Undefined, Bool(TRUE)}

\* What makeRequest can return to operation op.
Responses(op) ==
  {HttpError(404), HttpError(500), TimeoutError, ConnectionError}
    \cup {[success |-> TRUE, data |-> d] : d \in Bodies(op)}

\* C1: once a search for (q, m) has succeeded with useCache true and stored
\* its data, a second search for the same q and m with useCache true, made
\* before the TTL has elapsed and with no clearAllCache or
\* updateConfiguration in between, issues no request and returns
\* fromCache: true with the data of the first call; a call that stores data
\* returns that same data with success.
SecondSearchServedFromCache ==
  [][/\ \A c \in BagToSet(calls), r \in Responses("searchBooks") :
          (/\ last'.outcome = "succeeded"
           /\ c.op = "searchBooks"
           /\ c.useCache
           /\ Settle(c, r))
            => /\ c.key \in DOMAIN stored'
               /\ Continue(c, r, now).result
                    = [success |-> TRUE, data |-> stored'[c.key].data,
                       totalItems |-> Continue(c, r, now).result.totalItems,
                       fromCache |-> FALSE]
     /\ \A q \in Queries, m \in MaxResultsOptions, u \in UseCacheTrue :
          (/\ last'.op = "searchBooks"
           /\ ValidQuery(q)
           /\ SearchKey(q, m) \in DOMAIN stored
           /\ ~stored[SearchKey(q, m)].reconfigured
           /\ searchBooks(q, m, u))
            => /\ issued' = issued
               /\ calls' = calls
               /\ searchBooksBegin(q, m, u).returns
               /\ searchBooksBegin(q, m, u).result
                    = [success |-> TRUE, data |-> stored[SearchKey(q, m)].data,
                       fromCache |-> TRUE]]_vars

\* A second search has just been served from the cache, one request issued.
SecondSearchServedFromCacheWitness ==
  /\ last = [op |-> "searchBooks", outcome |-> "hit"]
  /\ issued = 1
  /\ calls = EmptyBag
  /\ now > 0
  /\ \E q \in Queries, m \in MaxResultsOptions :
        /\ ValidQuery(q)
        /\ SearchKey(q, m) \in DOMAIN stored
        /\ DOMAIN cache = {SearchKey(q, m)}

\* The beginnings of the calls that look up key k with useCache true.
LookupsOf(k) ==
  {searchBooksBegin(x[1], x[2], x[3]) :
     x \in {y \in AllQueries \X MaxResultsOptions \X UseCacheTrue :
              ValidQuery(y[1]) /\ SearchKey(y[1], y[2]) = k}}
  \cup {getAllBooksBegin(u) : u \in {v \in UseCacheTrue : k = allBooksCacheKey}}
  \cup {getBookDetailsBegin(x[1], x[2]) :
          x \in {y \in AllBookIds \X UseCacheTrue :
                   Truthy(y[1]) /\ bookCacheKey(y[1]) = k}}

\* C2: for every cached entry, a lookup of its key by searchBooks,
\* getAllBooks or getBookDetails with useCache true, made when
\* now - timestamp >= cacheTimeout, is a miss that goes on to the request and
\* removes the entry, so that getCacheStats counts one entry fewer.
ExpiredLookupMissesAndRemoves ==
  \A k \in DOMAIN cache :
    (now - cache[k].timestamp) >= cacheTimeout
      => /\ LookupsOf(k) # {}
         /\ \A b \in LookupsOf(k) :
              /\ ~b.returns
              /\ b.lookup
              /\ b.request.key = k
              /\ b.cache = MapDelete(cache, k)
              /\ getCacheStats(b.cache, cacheTimeout).entries
                   = getCacheStats(cache, cacheTimeout).entries - 1

\* A getBookDetails call has just found its entry expired, removed it and
\* issued its second request.
ExpiredLookupMissesAndRemovesWitness ==
  /\ last = [op |-> "getBookDetails", outcome |-> "evicts"]
  /\ issued = 2
  /\ cache = EmptyMap
  /\ now >= cacheTimeout

\* C3: after data has been stored under a key, every lookup of the key made
\* before the entry's age reaches the TTL, with no clearAllCache in between,
\* returns exactly that data with fromCache true and leaves the cache as it
\* is, also when the setCache that stored it ran the overflow sweep.
FreshLookupReturnsStored ==
  \A k \in DOMAIN stored :
    /\ LookupsOf(k) # {}
    /\ \A b \in LookupsOf(k) :
         /\ b.returns
         /\ b.result = [success |-> TRUE, data |-> stored[k].data,
                        fromCache |-> TRUE]
         /\ b.cache = cache

\* A getAllBooks call has just been served the entry whose setCache found an
\* older entry in the cache and so ran the sweep.
FreshLookupReturnsStoredWitness ==
  /\ last = [op |-> "getAllBooks", outcome |-> "hit"]
  /\ allBooksCacheKey \in DOMAIN stored
  /\ Cardinality(DOMAIN cache) > maxSize
  /\ \E j \in DOMAIN cache :
       cache[j].timestamp < cache[allBooksCacheKey].timestamp

\* A query that searchBooks rejects: absent, or shorter than 2 once trimmed.
InvalidQuery(q) == ~Truthy(q) \/ (q.t = "string" /\ Len(Trim(q.v)) < 2)
InvalidQueries == {q \in AllQueries : InvalidQuery(q)}
AbsentBookIds == {id \in AllBookIds : ~Truthy(id)}

\* Every value a caller can pass for useCache.
AnyUseCache == UseCacheOptions \cup UseCacheTrue

\* The messages of the calls that fail before any request.
ValidationErrors == {<<"La busqueda debe tener al menos 2 caracteres">>,
                     <<"ID de libro es requerido">>}

\* C4: a searchBooks, getAllBooks or getBookDetails call that ends with
\* success: false (rejected by validation, timed out, answered with a
\* non-2xx status, an unparseable or unusable body, or a network error)
\* leaves the cache exactly as it was: no entry added, none overwritten.
FailuresAreNeverCached ==
  [][/\ \A c \in BagToSet(calls) :
          last'.outcome \in {"failed", "expired"}
            => \A r \in Responses(c.op) :
                 (~Continue(c, r, now).result.success /\ Settle(c, r))
                   => cache' = cache /\ stored' = stored
     /\ \A op \in {"searchBooks", "getAllBooks", "getBookDetails"} :
          \A error \in ValidationErrors \cup {CatchMessage(op)} :
            Begin(op, ReturnEarly(Failure(error)))
            => cache' = cache /\ stored' = stored]_vars

\* A second call has just failed and the entry of the first is still there.
FailuresAreNeverCachedWitness ==
  /\ last.outcome = "failed"
  /\ issued = 2
  /\ calls = EmptyBag
  /\ DOMAIN cache # {}
  /\ DOMAIN cache = DOMAIN stored

\* C5: searchBooks with an absent query, or one whose trimmed length is
\* less than 2, returns {success: false, error} at once, whatever the
\* options: no request is issued, the cache is not looked up and not changed.
InvalidQueryIsRejected ==
  [][last'.op = "searchBooks"
       => /\ \A q \in InvalidQueries, m \in MaxResultsOptions, u \in AnyUseCache :
               searchBooksBegin(q, m, u)
                 = [returns |-> TRUE,
                    result |-> [success |-> FALSE,
                                error |-> <<"La busqueda debe tener al menos 2 caracteres">>],
                    cache |-> cache, lookup |-> FALSE]
          /\ \A q \in InvalidQueries \cap Queries :
               searchBooks(q, Undefined, Undefined)
                 => issued' = issued /\ calls' = calls /\ cache' = cache]_vars

\* A search has just been rejected while an entry is cached and a call is
\* in flight.
InvalidQueryIsRejectedWitness ==
  /\ last = [op |-> "searchBooks", outcome |-> "rejected"]
  /\ DOMAIN cache # {}
  /\ calls # EmptyBag

\* C6: getBookDetails with an absent id returns {success: false, error} at
\* once: no request is issued and the cache is left unchanged.
AbsentIdIsRejected ==
  [][\A id \in AbsentBookIds, u \in AnyUseCache :
       (last'.op = "getBookDetails" /\ getBookDetails(id, u))
         => /\ issued' = issued
            /\ calls' = calls
            /\ cache' = cache
            /\ getBookDetailsBegin(id, u).returns
            /\ ~getBookDetailsBegin(id, u).result.success
            /\ DOMAIN getBookDetailsBegin(id, u).result = {"success", "error"}]_vars

\* A getBookDetails call has just been rejected while an entry is cached.
AbsentIdIsRejectedWitness ==
  /\ last = [op |-> "getBookDetails", outcome |-> "rejected"]
  /\ DOMAIN cache # {}
  /\ issued > 0

\* What the specification expects of setCache: the cache with the entry set, swept
\* of every entry that a lookup would find expired when the count exceeds
\* the maximum.
SetThenSweepExpired(c, key, data, t, ttl) ==
  IF Cardinality(DOMAIN c \cup {key}) > maxSize
  THEN [k \in {j \in DOMAIN MapSet(c, key, [data |-> data, timestamp |-> t]) :
                 (t - MapSet(c, key, [data |-> data, timestamp |-> t])[j].timestamp) < ttl}
          |-> MapSet(c, key, [data |-> data, timestamp |-> t])[k]]
  ELSE MapSet(c, key, [data |-> data, timestamp |-> t])

\* C8 as stated: a setCache that brings the entry count above the maximum
\* removes every entry with now - timestamp >= cacheTimeout, the condition
\* under which a lookup misses, and keeps the others, the new one included;
\* a setCache that leaves the count at or below the maximum removes nothing.
SweepRemovesEveryExpiredEntry ==
  \A c \in BagToSet(calls) :
    setCache(cache, c.key, Null, now, cacheTimeout)
      = SetThenSweepExpired(cache, c.key, Null, now, cacheTimeout)

(***************************************************************************)
(* Key derivation: two search requests drawn at the start, the service     *)
(* then serving them                                                       *)
(***************************************************************************)
KeyQueries == {Str(<<"a", "b">>), Str(<<" ", "a", "b", " ">>), Str(<<"A", "b">>),
               Str(<<"a", " ", "b">>)}
KeyMaxResults == {Undefined, Num(5), Num(MAX_RESULTS)}
Requests == [query : KeyQueries, maxResults : KeyMaxResults]

InitKeys ==
  /\ Constructed
  /\ input \in Requests \X Requests
  /\ output = <<>>

\* The caller sends the i-th request, useCache left at its default.
searchRequest(i) ==
  searchBooks(input[i].query, input[i].maxResults, Undefined)

\* The first body the endpoint answers with.
FirstBody == Obj([books |-> Arr(<<RawX1>>), totalItems |-> Num(7)])

NextKeys ==
  \/ \E i \in 1..2 : searchRequest(i)
  \/ \E c \in BagToSet(calls) : fetchResolves(c, 200)
  \/ \E c \in BagToSet(calls) : jsonResolves(c, FirstBody)
  \/ Tick

SpecKeys == InitKeys /\ [][NextKeys]_vars

\* The key of a drawn request, and the value of maxResults it runs with.
RequestKey(r) == SearchKey(r.query, r.maxResults)
EffectiveMaxResults(r) == Default(r.maxResults, Num(maxResults))

\* Case folding of the letters the drawn queries use.
FoldChar(ch) == IF ch = "A" THEN "a" ELSE IF ch = "B" THEN "b" ELSE ch
Fold(s) == [i \in 1..Len(s) |-> FoldChar(s[i])]

\* The second request has just been served from the cache.
ServedFromCache(r) ==
  /\ searchBooksBegin(r.query, r.maxResults, Undefined).returns
  /\ searchBooksBegin(r.query, r.maxResults, Undefined).result.fromCache

InitNorm ==
  /\ Constructed
  /\ input \in Batches
  /\ output = <<>>

\* transformBooksData(input) runs at the present moment.
normalize ==
  /\ Len(output) < MaxRuns
  /\ output' = Append(output, [at |-> now, data |-> transformBooksData(input, now)])
  /\ last' = [op |-> "transformBooksData", outcome |-> "none"]
  /\ UNCHANGED <<input, userEmail, cache, cacheTimeout, timeout, maxResults,
                 now, calls, issued, stored>>

NextNorm ==
  \/ normalize
  \/ Tick

SpecNorm == InitNorm /\ [][NextNorm]_vars

\* A raw record that has an identifier.
HasIdentifier(r) == Truthy(r) /\ Truthy(Get(r, "id"))

\* A raw record whose fields have the types normalization reads them as:
\* authors a string or a list, publishedDate a string, industryIdentifiers a
\* list with no null before its first ISBN entry; each may be absent.
WellTyped(r) ==
  /\ Truthy(Get(r, "authors")) => Get(r, "authors").t \in {"string", "array"}
  /\ Truthy(Get(r, "publishedDate")) => Get(r, "publishedDate").t = "string"
  /\ Truthy(Get(r, "industryIdentifiers"))
       => /\ Get(r, "industryIdentifiers").t = "array"
          /\ \A n \in 1..Len(Get(r, "industryIdentifiers").v) :
               IsNullish(Get(r, "industryIdentifiers").v[n])
                 => \E k \in 1..(n - 1) :
                      IsIsbnEntry(Get(r, "industryIdentifiers").v[k])

Normalizable(r) == HasIdentifier(r) /\ WellTyped(r)

\* The identifiers of a list of raw records, and of a list of normalized ones
RawIds(raws) == [n \in 1..Len(raws) |-> Get(raws[n], "id")]
BookIdsOf(records) == [n \in 1..Len(records) |-> Get(records[n], "bookId")]

\* A search or catalog call that receives this batch in a 2xx body.
BatchCall(op) == [op |-> op, key |-> allBooksCacheKey, useCache |-> TRUE,
                  phase |-> "json"]
BatchResponse(books) == [success |-> TRUE, data |-> Obj([books |-> books])]

\* C9 as stated: normalizing a batch yields, in the input order, exactly
\* one normalized record for each raw record that has an identifier and
\* none for the others.
OneRecordPerIdentifier ==
  \A i \in 1..Len(output) :
    /\ output[i].data.t = "array"
    /\ Len(output[i].data.v) = Len(SelectSeq(input.v, HasIdentifier))
    /\ BookIdsOf(output[i].data.v) = RawIds(SelectSeq(input.v, HasIdentifier))

\* C9: normalizing a batch yields, in the input order, exactly one
\* normalized record for each raw record that has an identifier and fields of
\* the types normalization reads, and none for the others: a record with no
\* identifier, and also a record with an identifier whose authors,
\* publishedDate or industryIdentifiers make normalization throw, is
\* dropped.  The other records of the batch stay, and the search or catalog
\* call that received the batch returns them with success: true.
OneRecordPerNormalizableRecord ==
  \A i \in 1..Len(output) :
    /\ output[i].data.t = "array"
    /\ Len(output[i].data.v) = Len(SelectSeq(input.v, Normalizable))
    /\ BookIdsOf(output[i].data.v) = RawIds(SelectSeq(input.v, Normalizable))
    /\ \A op \in {"searchBooks", "getAllBooks"} :
         /\ Continue(BatchCall(op), BatchResponse(input), output[i].at).result.success
         /\ Continue(BatchCall(op), BatchResponse(input), output[i].at).result.data
              = output[i].data

\* A batch of a record with an identifier and unreadable authors and a
\* sound record has been normalized to the one sound record.
OneRecordPerNormalizableRecordWitness ==
  /\ input = Arr(<<RawBadAuthors, RawX1>>)
  /\ Len(output) > 0
  /\ BookIdsOf(output[1].data.v) = <<Str(<<"x", "1">>)>>

\* A normalized record without its time stamp.
WithoutTransformedAt(record) ==
  [f \in (DOMAIN record.v) \ {"transformedAt"} |-> record.v[f]]

\* C10 as stated: normalizing the same raw records at any two moments
\* gives records that are equal in every field.
NormalizationEqualInEveryField ==
  \A i, j \in 1..Len(output) : output[i].data = output[j].data

\* C10: normalizing the same raw records at any two moments gives records
\* with the same fields, equal in every field but transformedAt, which is
\* the moment of the normalization: the records are equal in that field too
\* exactly when the two moments are the same.
NormalizationEqualButForTransformedAt ==
  \A i, j \in 1..Len(output) :
    /\ Len(output[i].data.v) = Len(output[j].data.v)
    /\ \A n \in 1..Len(output[i].data.v) :
         /\ DOMAIN output[i].data.v[n].v = DOMAIN output[j].data.v[n].v
         /\ WithoutTransformedAt(output[i].data.v[n])
              = WithoutTransformedAt(output[j].data.v[n])
         /\ (output[i].data.v[n].v.transformedAt = output[j].data.v[n].v.transformedAt)
              <=> (output[i].at = output[j].at)

\* Two records have been normalized twice, at two moments.
NormalizationEqualButForTransformedAtWitness ==
  /\ Len(output) = 2
  /\ output[1].at < output[2].at
  /\ Len(output[1].data.v) = 2
  /\ output[1].data.v[1].v.transformedAt # output[2].data.v[1].v.transformedAt

\* The identifiers of the ISBN entries of a raw record.
IsbnIdentifiers(r) ==
  {Get(Get(r, "industryIdentifiers").v[n], "identifier") :
     n \in {k \in 1..Len(Or(Get(r, "industryIdentifiers"), Arr(<<>>)).v) :
              IsIsbnEntry(Get(r, "industryIdentifiers").v[k])}}

\* The fields the specification names, as it derives them from raw record r.
FieldsAsSpecified(record, r) ==
  /\ Get(record, "bookId") = Get(r, "id")
  /\ Get(record, "titulo") = IF Truthy(Get(r, "title")) THEN Get(r, "title")
                             ELSE Str(<<"Titulo no disponible">>)
  /\ Get(record, "autor")
       = IF Get(r, "authors").t = "string" /\ Get(r, "authors").v # <<>>
         THEN Get(r, "authors")
         ELSE IF Get(r, "authors").t = "array" /\ Get(r, "authors").v # <<>>
         THEN Str(Join(Get(r, "authors").v, <<", ">>))
         ELSE Str(<<"Autor desconocido">>)
  /\ IF IsbnIdentifiers(r) = {} THEN Get(record, "isbn") = Null
     ELSE Get(record, "isbn") \in IsbnIdentifiers(r)

\* C18 as stated: normalizing a raw record that has an identifier yields a
\* record whose bookId, titulo, autor and isbn are derived from the raw id,
\* title, authors and ISBN entry as specified.
EveryIdentifiedRecordHasFieldsAsSpecified ==
  \A i \in 1..Len(output) :
    /\ Len(output[i].data.v) = Len(SelectSeq(input.v, HasIdentifier))
    /\ \A n \in 1..Len(output[i].data.v) :
         FieldsAsSpecified(output[i].data.v[n],
                           SelectSeq(input.v, HasIdentifier)[n])

\* C18: normalizing a raw record that has an identifier and fields of the
\* types normalization reads yields a record whose bookId is the raw id,
\* whose titulo is the raw title or the default when there is none, whose
\* autor is the raw authors, a string as it is and a list joined with ', ',
\* or the default when they are absent or empty, and whose isbn is the
\* identifier of an ISBN entry of the record, null when it has none; the
\* record of the example gives x1, Foo, Jane Doe, 9780000000000.  A record
\* with an identifier whose authors, publishedDate or industryIdentifiers
\* make normalization throw yields no record.
NormalizedFieldsAsSpecified ==
  \A i \in 1..Len(output) :
    /\ Len(output[i].data.v) = Len(SelectSeq(input.v, Normalizable))
    /\ \A n \in 1..Len(output[i].data.v) :
         /\ FieldsAsSpecified(output[i].data.v[n],
                              SelectSeq(input.v, Normalizable)[n])
         /\ SelectSeq(input.v, Normalizable)[n] = RawX1
              => /\ output[i].data.v[n].v.bookId = Str(<<"x", "1">>)
                 /\ output[i].data.v[n].v.titulo = Str(<<"Foo">>)
                 /\ output[i].data.v[n].v.autor = Str(<<"Jane Doe">>)
                 /\ output[i].data.v[n].v.isbn = Str(<<"9780000000000">>)

\* The record of the example and a record with nothing but its identifier
\* have been normalized.
NormalizedFieldsAsSpecifiedWitness ==
  /\ input = Arr(<<RawX1, RawBare>>)
  /\ Len(output) > 0
  /\ Len(output[1].data.v) = 2
  /\ output[1].data.v[2].v.autor = Str(<<"Autor desconocido">>)

\* The identifier of the first entry of the given type, Undefined when the
\* list has none.
FirstIdentifierOfType(ids, type) ==
  IF \E n \in 1..Len(ids) : Get(ids[n], "type") = Str(<<type>>)
  THEN Get(ids[CHOOSE n \in 1..Len(ids) :
                 /\ Get(ids[n], "type") = Str(<<type>>)
                 /\ \A k \in 1..(n - 1) : Get(ids[k], "type") # Str(<<type>>)],
           "identifier")
  ELSE Undefined

\* The isbn the specification asks for: ISBN-13 first, then ISBN-10.
PreferredIsbn(r) ==
  Or(Or(FirstIdentifierOfType(Or(Get(r, "industryIdentifiers"), Arr(<<>>)).v,
                              "ISBN_13"),
        FirstIdentifierOfType(Or(Get(r, "industryIdentifiers"), Arr(<<>>)).v,
                              "ISBN_10")),
     Null)

\* C19 as stated: the isbn of a normalized record is the identifier of the
\* first ISBN_13 entry of the raw identifiers when there is one, otherwise
\* that of the first ISBN_10 entry, otherwise null, whatever the order of
\* the entries.
IsbnPrefersIsbn13 ==
  \A i \in 1..Len(output) :
    /\ Len(output[i].data.v) = Len(SelectSeq(input.v, Normalizable))
    /\ \A n \in 1..Len(output[i].data.v) :
         output[i].data.v[n].v.isbn
           = PreferredIsbn(SelectSeq(input.v, Normalizable)[n])

(***************************************************************************)
(* Results and errors of the public operations                             *)
(***************************************************************************)
\* The uniform result shape: a success flag with data, or with a message.
UniformResult(r) ==
  /\ r.success \in BOOLEAN
  /\ IF r.success
     THEN "data" \in DOMAIN r /\ "error" \notin DOMAIN r
     ELSE DOMAIN r = {"success", "error"} /\ Len(r.error) > 0

\* The beginnings of every call a caller can make, malformed arguments
\* included.
AnyBeginning ==
  {searchBooksBegin(x[1], x[2], x[3]) :
     x \in AllQueries \X MaxResultsOptions \X AnyUseCache}
  \cup {getAllBooksBegin(u) : u \in AnyUseCache}
  \cup {getBookDetailsBegin(x[1], x[2]) : x \in AllBookIds \X AnyUseCache}

\* The requests the operations can await: Continue reads op and useCache.
AnyRequest ==
  [op : {"searchBooks", "getAllBooks", "getBookDetails"}, key : {allBooksCacheKey},
   useCache : BOOLEAN, phase : {"fetch", "json"}]

\* C11: every call of searchBooks, getAllBooks and getBookDetails, whatever
\* its arguments and however its request ends (a non-2xx status, the timer,
\* a network failure, an unparseable body, a body of any shape), returns an
\* object with a success flag, with data when success is true and with a
\* non-empty error message and nothing else when it is false: where the code
\* throws, the catch of the operation turns the exception into such a result.
EveryCallReturnsUniformResult ==
  /\ \A b \in AnyBeginning :
       IF b.returns THEN UniformResult(b.result)
       ELSE b.request.op \in {"searchBooks", "getAllBooks", "getBookDetails"}
  /\ \A c \in AnyRequest \cup BagToSet(calls) :
       \A r \in Responses(c.op) : UniformResult(Continue(c, r, now).result)

\* A search has just failed at the end of its request while another call
\* awaits its response.
EveryCallReturnsUniformResultWitness ==
  /\ last = [op |-> "searchBooks", outcome |-> "failed"]
  /\ issued = 2
  /\ calls # EmptyBag

\* The statuses for which response.ok is false.
NotOk == {status \in Statuses : ~(status \in 200..299)}

\* C12: when the timer of a call fires while the call still awaits fetch,
\* the call is aborted and the operation returns success: false with the
\* request-expired message, stores nothing, and that result differs from
\* the one of a network failure and from the one of every non-2xx status.
ExpiredRequestIsDistinct ==
  \A c \in BagToSet(calls) :
    c.phase = "fetch"
      => /\ Continue(c, TimeoutError, now).result
              = [success |-> FALSE,
                 error |-> <<"La peticion ha expirado. Verifica tu conexion.">>]
         /\ ~Continue(c, TimeoutError, now).put
         /\ Continue(c, TimeoutError, now).result
              # Continue(c, ConnectionError, now).result
         /\ \A status \in NotOk :
              Continue(c, TimeoutError, now).result
                # Continue(c, HttpError(status), now).result

\* The timer of a search has just fired while a getBookDetails call awaits
\* fetch, its own timer armed.
ExpiredRequestIsDistinctWitness ==
  /\ last = [op |-> "searchBooks", outcome |-> "expired"]
  /\ \E c \in BagToSet(calls) : c.phase = "fetch" /\ c.op = "getBookDetails"

\* The fields of the result of a search that misses and succeeds.
MissResultFields ==
  DOMAIN CatalogResult([op |-> "searchBooks", useCache |-> TRUE],
                       [success |-> TRUE, data |-> FirstBody],
                       transformBooksData(Get(FirstBody, "books"), now)).result

\* C14 as stated: a search served from the cache returns a result of the
\* same fields as a search that misses, {success, data, totalItems,
\* fromCache}, with the stored data and fromCache true.
SearchHitHasTotalItems ==
  \A q \in Queries, m \in MaxResultsOptions :
    (ValidQuery(q) /\ searchBooksBegin(q, m, Undefined).returns)
      => /\ searchBooksBegin(q, m, Undefined).result.fromCache
         /\ DOMAIN searchBooksBegin(q, m, Undefined).result = MissResultFields
         /\ MissResultFields = {"success", "data", "totalItems", "fromCache"}

\* The keys that a call with useCache true would now be served from.
HitKeys ==
  {SearchKey(x[1], x[2]) :
     x \in {y \in AllQueries \X MaxResultsOptions :
              ValidQuery(y[1]) /\ searchBooksBegin(y[1], y[2], Undefined).returns}}
  \cup {allBooksCacheKey : u \in {v \in {Undefined} : getAllBooksBegin(v).returns}}
  \cup {bookCacheKey(id) :
          id \in {j \in AllBookIds :
                    Truthy(j) /\ getBookDetailsBegin(j, Undefined).returns}}

\* C15: clearAllCache leaves the cache without entries, whatever it held,
\* expired or not: getCacheStats then counts 0 entries and no lookup of any
\* key is served from the cache; a key is served only while the cache holds
\* an entry for it, and an entry appears only by the setCache of a call for
\* that key that succeeds with useCache true.
ClearedCacheMissesUntilPut ==
  /\ [](HitKeys \subseteq DOMAIN cache)
  /\ [][/\ clearAllCache
            => /\ cache' = EmptyMap
               /\ getCacheStats(cache', cacheTimeout').entries = 0
               /\ HitKeys' = {}
        /\ \A k \in (DOMAIN cache') \ (DOMAIN cache) :
             /\ last'.outcome = "succeeded"
             /\ \E c \in BagToSet(calls) :
                  /\ c.key = k
                  /\ c.useCache
                  /\ calls' = calls (-) SetToBag({c})]_vars

\* The cache has just been cleared at time 0, when no entry can have
\* expired, after two calls have ended.
ClearedCacheMissesUntilPutWitness ==
  /\ last.op = "clearAllCache"
  /\ issued = 2
  /\ calls = EmptyBag
  /\ now = 0

\* C20 as stated: in every reachable state a call is served from the cache
\* only by an entry with now - timestamp < cacheTimeout, and never by an
\* entry that has once been invalid, its age having reached the TTL then in
\* force at some moment since it was stored.
OnceInvalidNeverReturned ==
  \A k \in HitKeys :
    /\ k \in DOMAIN cache
    /\ (now - cache[k].timestamp) < cacheTimeout
    /\ k \in DOMAIN stored
    /\ stored[k].at = cache[k].timestamp

(***************************************************************************)
(* Calls in flight together                                                *)
(***************************************************************************)
\* C21: a call whose timer fired writes nothing to the cache, then or
\* later: the step in which it returns the timeout failure leaves the cache
\* as it is and ends the call, which was awaiting fetch, so that no response
\* arriving afterwards is handled for it; an entry enters the cache, or gets
\* a new timestamp, only in the step in which a call ends with success.
ExpiredCallNeverStores ==
  [][/\ last'.outcome = "expired"
          => /\ cache' = cache
             /\ stored' = stored
             /\ \E c \in BagToSet(calls) :
                  /\ c.phase = "fetch"
                  /\ c.op = last'.op
                  /\ calls' = calls (-) SetToBag({c})
     /\ \A k \in DOMAIN cache' :
          (k \notin DOMAIN cache \/ cache'[k] # cache[k])
            => last'.outcome = "succeeded"]_vars

\* The timer of a getAllBooks call has just fired, no call is left in
\* flight, and the cache holds an entry of another call and none for the
\* catalog.
ExpiredCallNeverStoresWitness ==
  /\ last = [op |-> "getAllBooks", outcome |-> "expired"]
  /\ calls = EmptyBag
  /\ DOMAIN cache # {}
  /\ allBooksCacheKey \notin DOMAIN cache

\* C22: lookups of one key are not coalesced: while a call for a key is in
\* flight and the cache holds no fresh entry for it, every call for that key
\* with useCache true misses and goes on to a request of its own, of the
\* same key; a step that issues a request adds one call to those in flight,
\* and a step that ends a call ends that one alone, the others still
\* awaiting their own responses.
ConcurrentLookupsNotCoalesced ==
  /\ [](\A c \in BagToSet(calls) :
          ~isValidCache(cache, c.key, now, cacheTimeout).isValid
            => /\ LookupsOf(c.key) # {}
               /\ \A b \in LookupsOf(c.key) :
                    /\ ~b.returns
                    /\ b.request.key = c.key
                    /\ b.request.phase = "fetch")
  /\ [][/\ issued' # issued
             => /\ issued' = issued + 1
                /\ \E c \in BagToSet(calls') : calls' = calls (+) SetToBag({c})
        /\ last'.outcome \in {"succeeded", "failed", "expired"}
             => \E c \in BagToSet(calls) : calls' = calls (-) SetToBag({c})]_vars

\* Two calls for one key, both with useCache true, are in flight, the
\* second just issued.
ConcurrentLookupsNotCoalescedWitness ==
  /\ last.outcome = "awaits"
  /\ issued = 2
  /\ \E c, d \in BagToSet(calls) :
        /\ c.key = d.key
        /\ c.useCache /\ d.useCache
        /\ c.phase = "fetch"
        /\ c # d \/ CopiesIn(c, calls) = 2

\* A normalized record: an object with an identifier.
IsBookRecord(x) == x.t = "object" /\ Truthy(Get(x, "bookId"))

\* A key of getBookDetails.
IsDetailsKey(k) ==
  Len(k) >= 5 /\ SubSeq(k, 1, 5) = <<"b", "o", "o", "k", "_">>

\* C23 as stated: every value the cache holds is a normalized result, a
\* list of records with an identifier under the keys of searchBooks and
\* getAllBooks and one record with an identifier under a key of
\* getBookDetails, never null; and getBookDetails returns success: true only
\* with such a record as data, whatever body the endpoint answers with.
CacheHoldsOnlyBookRecords ==
  /\ \A k \in DOMAIN cache :
       IF IsDetailsKey(k) THEN IsBookRecord(cache[k].data)
       ELSE /\ cache[k].data.t = "array"
            /\ \A n \in 1..Len(cache[k].data.v) : IsBookRecord(cache[k].data.v[n])
  /\ \A c \in BagToSet(calls) :
       c.op = "getBookDetails"
         => \A r \in Responses(c.op) :
              Continue(c, r, now).result.success
                => IsBookRecord(Continue(c, r, now).result.data)

\* C26: there is no automatic retry.  Every step sends at most one request;
\* a request is sent only by an invocation that starts with valid
\* arguments and is not served from the cache, which adds that one call;
\* an invocation that is rejected, served from the cache, or ends, be it
\* with a result, an error status, a network failure or its timer, sends
\* nothing, and an end takes its call out of flight.
NoAutomaticRetry ==
  [][/\ issued' \in {issued, issued + 1}
     /\ issued' = issued + 1
          => /\ last'.outcome \in {"awaits", "evicts"}
             /\ BagCardinality(calls') = BagCardinality(calls) + 1
     /\ last'.outcome \in {"rejected", "hit"}
          => issued' = issued /\ calls' = calls
     /\ last'.outcome \in {"succeeded", "failed", "expired"}
          => /\ issued' = issued
             /\ BagCardinality(calls') = BagCardinality(calls) - 1]_vars

\* An invocation has failed after its one request, and nothing is in
\* flight.
NoAutomaticRetryWitness ==
  /\ last.outcome = "failed"
  /\ issued = 1
  /\ calls = EmptyBag
  /\ cache = EmptyMap

\* An identifier that passes the validation of getBookDetails.
ValidBookId(bookId) == Truthy(bookId)

\* The operations called with useCache: false, up to their first await.
BeginningsWithoutCache ==
  {searchBooksBegin(x[1], x[2], Bool(FALSE)) :
     x \in {q \in AllQueries : ValidQuery(q)} \X MaxResultsOptions}
  \cup {getAllBooksBegin(Bool(FALSE))}
  \cup {getBookDetailsBegin(id, Bool(FALSE)) :
          id \in {i \in AllBookIds : ValidBookId(i)}}

\* C27: with useCache false an operation neither reads nor writes the
\* cache.  With valid arguments it always sends its request, whatever the
\* cache holds, without a lookup and without evicting; however the request
\* ends it stores nothing, and a success reports fromCache: false; the
\* step that starts such a call and the step that ends it leave every entry
\* as it was.
WithoutCacheNeitherReadNorWritten ==
  /\ [](/\ \A b \in BeginningsWithoutCache :
             ~b.returns /\ ~b.lookup /\ b.cache = cache /\ ~b.request.useCache
        /\ \A c \in BagToSet(calls) :
             ~c.useCache
               => \A r \in Responses(c.op) :
                    /\ ~Continue(c, r, now).put
                    /\ Continue(c, r, now).result.success
                         => Continue(c, r, now).result.fromCache = FALSE)
  /\ [][/\ \A c \in BagToSet(calls) :
             (~c.useCache /\ calls' = calls (-) SetToBag({c}))
               => cache' = cache /\ stored' = stored
        /\ \A c \in BagToSet(calls') :
             (~c.useCache /\ calls' = calls (+) SetToBag({c}))
               => cache' = cache /\ stored' = stored /\ issued' = issued + 1]_vars

\* getAllBooks has just succeeded with useCache false while the cache held
\* a valid entry of an earlier getAllBooks: the entry still has the earlier
\* timestamp.
WithoutCacheNeitherReadNorWrittenWitness ==
  /\ last = [op |-> "getAllBooks", outcome |-> "succeeded"]
  /\ calls = EmptyBag
  /\ issued = 2
  /\ DOMAIN cache = {allBooksCacheKey}
  /\ cache[allBooksCacheKey].timestamp < now
  /\ isValidCache(cache, allBooksCacheKey, now, cacheTimeout).isValid

\* C28: clearAllCache does not cancel the calls in flight.  The step that
\* clears leaves every call in flight as it was; a call in flight with
\* useCache true stores its data whenever its request succeeds, so a call
\* sent before the clear that completes after it leaves an entry under its
\* key with the time of its completion.
ClearLeavesCallsInFlight ==
  /\ [](\A c \in BagToSet(calls) :
          c.useCache
            => \A r \in Responses(c.op) :
                 Continue(c, r, now).result.success => Continue(c, r, now).put)
  /\ [][/\ last'.op = "clearAllCache"
            => calls' = calls /\ issued' = issued /\ cache' = EmptyMap
        /\ \A c \in BagToSet(calls) :
             (/\ c.useCache
              /\ last' = [op |-> c.op, outcome |-> "succeeded"]
              /\ calls' = calls (-) SetToBag({c}))
               => /\ c.key \in DOMAIN cache'
                  /\ cache'[c.key].timestamp = now]_vars

\* The cache has just been cleared while a call with useCache true, sent
\* before, awaits the body of its response; no further call can be sent.
ClearLeavesCallsInFlightWitness ==
  /\ last.op = "clearAllCache"
  /\ cache = EmptyMap
  /\ issued = MaxIssued
  /\ \E c \in BagToSet(calls) : c.useCache /\ c.phase = "json"

\* C30: when calls for one key are in flight together with useCache true
\* and succeed, each stores on its completion.  The step in which a call
\* with useCache true succeeds leaves, under the call's key, the data of
\* that call's response with the time of that step, whatever entry another
\* call stored there before: the last to complete wins; and it adds at most
\* one entry, none when the key already has one.
LastCompletedCallWins ==
  [][\A c \in BagToSet(calls) :
       (/\ c.useCache
        /\ last' = [op |-> c.op, outcome |-> "succeeded"]
        /\ calls' = calls (-) SetToBag({c}))
         => /\ \E r \in Responses(c.op) :
                 /\ Continue(c, r, now).result.success
                 /\ c.key \in DOMAIN cache'
                 /\ cache'[c.key] = [data |-> Continue(c, r, now).data,
                                     timestamp |-> now]
                 /\ stored'[c.key].data = Continue(c, r, now).data
            /\ DOMAIN cache' \subseteq DOMAIN cache \cup {c.key}
            /\ Cardinality(DOMAIN cache')
                 <= Cardinality(DOMAIN cache)
                      + (IF c.key \in DOMAIN cache THEN 0 ELSE 1)]_vars

\* Two calls for one key were in flight together with useCache true: the
\* first has stored its entry, time has passed, and the second, which
\* began before that entry existed, awaits the body of its response.
LastCompletedCallWinsWitness ==
  /\ issued = 2
  /\ Cardinality(DOMAIN cache) = 1
  /\ \E c \in BagToSet(calls) :
       /\ c.useCache
       /\ c.phase = "json"
       /\ c.key \in DOMAIN cache
       /\ cache[c.key].timestamp < now

(***************************************************************************)
(* Timers: the service with the timer of every call that awaits fetch      *)
(* firing unless the await ends first.  The endpoint is free to stall: no  *)
(* fairness is assumed of the responses and of the bodies.                 *)
(***************************************************************************)
SpecTimers == Spec /\ WF_vars(\E c \in BagToSet(calls) : abort(c))

\* The timer of call c is armed: set before fetch, cleared when fetch ends.
TimerArmed(c) == c.phase = "fetch"

\* C13 as stated: every call that has issued its request returns, with data
\* or with the timeout failure, however long the endpoint stalls, while it
\* sends the response and while it sends the body.
EveryRequestReturns == (calls # EmptyBag) ~> (calls = EmptyBag)

\* The part of it that the timer gives: a call does not wait for the
\* response (the status line and the headers) without bound.
EveryFetchEnds ==
  (\E c \in BagToSet(calls) : TimerArmed(c))
    ~> (\A c \in BagToSet(calls) : ~TimerArmed(c))

(***************************************************************************)
(* Caller identity and statistics: the service with the authentication     *)
(* listener setting and clearing the user's email and with getCacheStats   *)
(* called, one request of each operation being made                        *)
(***************************************************************************)
\* The emails of the users who sign in.
Identities == {Str(<<"u@x">>), Str(<<"v@x">>)}

setUserEmail(email) ==
  /\ userEmail' = email
  /\ last' = [op |-> "setUserEmail", outcome |-> "none"]
  /\ UNCHANGED <<input, output, cache, cacheTimeout, timeout, maxResults, now,
                 calls, issued, stored>>

\* A sign-out that also empties the cache.
clearAuthorizationClearing ==
  /\ userEmail' = Null
  /\ cache' = EmptyMap
  /\ last' = [op |-> "clearAuthorization", outcome |-> "none"]
  /\ UNCHANGED <<input, output, cacheTimeout, timeout, maxResults, now,
                 calls, issued, stored>>

clearAuthorization ==
  /\ userEmail' = Null
  /\ last' = [op |-> "clearAuthorization", outcome |-> "none"]
  /\ UNCHANGED <<input, output, cache, cacheTimeout, timeout, maxResults, now,
                 calls, issued, stored>>

\* Statistics that drop the entries a lookup would find expired.
getCacheStatsCallEvicting ==
  /\ cache' = [k \in {j \in DOMAIN cache : (now - cache[j].timestamp) < cacheTimeout}
                 |-> cache[k]]
  /\ last' = [op |-> "getCacheStats", outcome |-> "none"]
  /\ UNCHANGED <<input, output, userEmail, cacheTimeout, timeout, maxResults, now,
                 calls, issued, stored>>

\* A call of getCacheStats(): it returns getCacheStats(cache, cacheTimeout).
getCacheStatsCall ==
  /\ last' = [op |-> "getCacheStats", outcome |-> "none"]
  /\ UNCHANGED <<input, output, userEmail, cache, cacheTimeout, timeout,
                 maxResults, now, calls, issued, stored>>

NextIdentity ==
  \/ \E email \in Identities : setUserEmail(email)
  \/ clearAuthorization
  \/ getCacheStatsCall
  \/ searchBooks(Str(<<"a", "b">>), Undefined, Undefined)
  \/ getAllBooks(Undefined)
  \/ getBookDetails(Str(<<"x", "1">>), Undefined)
  \/ \E c \in BagToSet(calls), status \in {200, 500} : fetchResolves(c, status)
  \/ \E c \in BagToSet(calls) : abort(c)
  \/ \E c \in BagToSet(calls) : \E data \in Bodies(c.op) : jsonResolves(c, data)
  \/ \E config \in Configs : updateConfiguration(config)
  \/ Tick

SpecIdentity == Init /\ [][NextIdentity]_vars

\* C16: getCacheStats() returns the number of entries the cache holds,
\* expired ones included, the maximum and the TTL, and changes nothing: the
\* entries, the configuration, the user's email and the calls in flight are
\* after the call what they were before it, so that a second call returns
\* the same.  (The maximum is the one setCache sweeps at, scaled here.)
StatsReadOnly ==
  [][last'.op = "getCacheStats"
       => /\ cache' = cache
          /\ cacheTimeout' = cacheTimeout
          /\ timeout' = timeout
          /\ maxResults' = maxResults
          /\ userEmail' = userEmail
          /\ calls' = calls
          /\ getCacheStats(cache, cacheTimeout).entries = Cardinality(DOMAIN cache)
          /\ getCacheStats(cache, cacheTimeout).maxSize = maxSize
          /\ getCacheStats(cache, cacheTimeout).timeoutMinutes * 60 * 1000
               = cacheTimeout * MsPerTick
          /\ getCacheStats(cache', cacheTimeout')
               = getCacheStats(cache, cacheTimeout)]_vars

\* getCacheStats has just been called while the cache holds an expired
\* entry, a user is signed in and the TTL is not the default.
StatsReadOnlyWitness ==
  /\ last.op = "getCacheStats"
  /\ \E k \in DOMAIN cache : (now - cache[k].timestamp) >= cacheTimeout
  /\ userEmail \in Identities
  /\ cacheTimeout = ShortTtl

\* C17: a request carries as its Authorization header the email that the
\* latest setUserEmail set, and no such header when clearAuthorization came
\* later or no email was ever set; the header is fixed when the request is
\* issued: a change of the email while the call is in flight leaves the
\* headers of the calls in flight as they are.
AuthorizationIsEmailAtIssue ==
  [][/\ last'.op = "setUserEmail" => userEmail' \in Identities /\ calls' = calls
     /\ last'.op = "clearAuthorization" => userEmail' = Null /\ calls' = calls
     /\ last'.op \notin {"setUserEmail", "clearAuthorization"}
          => userEmail' = userEmail
     /\ issued' = issued + 1
          => \E c \in BagToSet(calls') :
               /\ calls' = calls (+) SetToBag({c})
               /\ c.phase = "fetch"
               /\ c.authorization = IF userEmail \in Identities THEN userEmail
                                    ELSE Undefined
     /\ issued' = issued
          => \A d \in BagToSet(calls') :
               \E c \in BagToSet(calls) :
                  /\ d.authorization = c.authorization
                  /\ d.op = c.op
                  /\ d.key = c.key]_vars

\* Two calls are in flight, one issued for a first user and one issued with
\* nobody signed in, and a second user has just signed in.
AuthorizationIsEmailAtIssueWitness ==
  /\ last.op = "setUserEmail"
  /\ userEmail = Str(<<"v@x">>)
  /\ \E c, d \in BagToSet(calls) :
        /\ c.authorization = Str(<<"u@x">>)
        /\ d.authorization = Undefined


(***************************************************************************)
(* The values handed to callers.  A result's data is the object the cache  *)
(* holds: after a request the operation stores transformedBooks and        *)
(* returns the same object, and on a hit it returns the entry's data       *)
(* field.  A caller that writes to the object it was returned therefore    *)
(* writes to the entry.                                                    *)
(***************************************************************************)

\* A write by a caller to the value it received: a list is emptied
\* (data.length = 0), a record gets another title (data.titulo = ...).
Mutated(data) ==
  IF data.t = "array" THEN Arr(<<>>)
  ELSE Obj([data.v EXCEPT !["titulo"] = Str(<<"changed">>)])

\* The caller that was returned the data of the entry under key writes to
\* it.  Every entry's data was returned to the caller whose call stored it.
callerMutates(key) ==
  /\ key \in DOMAIN cache
  /\ cache[key].data.t \in {"array", "object"}
  /\ Mutated(cache[key].data) # cache[key].data
  /\ cache' = [cache EXCEPT ![key].data = Mutated(@)]
  /\ last' = [op |-> "callerMutates", outcome |-> "none"]
  /\ UNCHANGED <<input, output, userEmail, cacheTimeout, timeout, maxResults,
                 now, calls, issued, stored>>

NextOwnership ==
  \/ \E key \in DOMAIN cache : callerMutates(key)
  \/ searchBooks(Str(<<"a", "b">>), Undefined, Undefined)
  \/ getAllBooks(Undefined)
  \/ getBookDetails(Str(<<"x", "1">>), Undefined)
  \/ \E c \in BagToSet(calls), status \in {200, 500} : fetchResolves(c, status)
  \/ \E c \in BagToSet(calls) : abort(c)
  \/ \E c \in BagToSet(calls) : \E data \in Bodies(c.op) : jsonResolves(c, data)
  \/ clearAllCache
  \/ Tick

SpecOwnership == Init /\ [][NextOwnership]_vars

\* C24 as stated: the cache owns its entries and callers hold copies, so
\* whatever a caller does with the data it was returned, a hit on a key
\* returns the value that was stored under it: the data of every valid
\* entry is the data the latest setCache of its key was given.
HitReturnsStoredValue ==
  \A key \in DOMAIN cache \cap DOMAIN stored :
    /\ isValidCache(cache, key, now, cacheTimeout).isValid
    /\ cache[key].timestamp = stored[key].at
    => cache[key].data = stored[key].data

(***************************************************************************)
(* Keys of distinct requests: two requests of any of the three operations  *)
(* are drawn at the start, with queries and identifiers that contain the   *)
(* separator and digits, and sent in any order.                            *)
(***************************************************************************)
DistinctQueries == {Str(<<"a", "b">>), Str(<<"a", "b", "_", "5">>),
                    Str(<<"a", "b", "5">>), Str(<<" ", "a", "b", "_">>)}
DistinctMaxResults == {Undefined, Num(5), Num(55)}
DistinctBookIds == {Str(<<"x", "1">>), Str(<<"a", "b", "_", "5">>),
                    Str(<<"s">>)}
DistinctRequests ==
  [op : {"searchBooks"}, arg : DistinctQueries, maxResults : DistinctMaxResults]
    \cup [op : {"getBookDetails"}, arg : DistinctBookIds, maxResults : {Undefined}]
    \cup {[op |-> "getAllBooks", arg |-> Undefined, maxResults |-> Undefined]}

InitDistinct ==
  /\ Constructed
  /\ input \in DistinctRequests \X DistinctRequests
  /\ output = <<>>

\* The caller sends the i-th request, useCache left at its default.
request(i) ==
  \/ /\ input[i].op = "searchBooks"
     /\ searchBooks(input[i].arg, input[i].maxResults, Undefined)
  \/ /\ input[i].op = "getBookDetails"
     /\ getBookDetails(input[i].arg, Undefined)
  \/ /\ input[i].op = "getAllBooks"
     /\ getAllBooks(Undefined)

\* The body the endpoint of an operation answers with.
BodyOf(op) == IF op = "getBookDetails" THEN RawX1 ELSE FirstBody

NextDistinct ==
  \/ \E i \in 1..2 : request(i)
  \/ \E c \in BagToSet(calls) : fetchResolves(c, 200)
  \/ \E c \in BagToSet(calls) : jsonResolves(c, BodyOf(c.op))
  \/ Tick

SpecDistinct == InitDistinct /\ [][NextDistinct]_vars

\* What a request asks for: the operation with, for a search, the trimmed
\* query and the maxResults it runs with, and for details, the identifier.
ParametersOf(r) ==
  CASE r.op = "searchBooks"
         -> <<r.op, Trim(r.arg.v), Default(r.maxResults, Num(maxResults))>>
    [] r.op = "getBookDetails" -> <<r.op, r.arg>>
    [] OTHER -> <<r.op>>

\* The key a request uses, and the request up to its first await.
KeyOf(r) ==
  CASE r.op = "searchBooks" -> SearchKey(r.arg, r.maxResults)
    [] r.op = "getBookDetails" -> bookCacheKey(r.arg)
    [] OTHER -> allBooksCacheKey
BeginOf(r) ==
  CASE r.op = "searchBooks" -> searchBooksBegin(r.arg, r.maxResults, Undefined)
    [] r.op = "getBookDetails" -> getBookDetailsBegin(r.arg, Undefined)
    [] OTHER -> getAllBooksBegin(Undefined)

\* C25: the keys of distinct requests never collide.  Two requests that
\* differ in the operation, in the trimmed query, in maxResults or in the
\* identifier use different keys, also when the query contains the
\* separator or digits; every entry in the cache is under the key of one
\* of them, a request is served from the cache only with the data stored
\* under its own key, and while only one call has been sent the entry it
\* stored serves at most one of the two.
DistinctRequestsDistinctKeys ==
  /\ DOMAIN cache \subseteq {KeyOf(input[1]), KeyOf(input[2])}
  /\ ParametersOf(input[1]) # ParametersOf(input[2])
       => /\ KeyOf(input[1]) # KeyOf(input[2])
          /\ \A i \in 1..2 :
               BeginOf(input[i]).returns
                 => /\ KeyOf(input[i]) \in DOMAIN stored
                    /\ BeginOf(input[i]).result.data = stored[KeyOf(input[i])].data
          /\ issued <= 1
               => ~(BeginOf(input[1]).returns /\ BeginOf(input[2]).returns)

\* A query that contains the separator and a digit, and the query before
\* the separator with that digit as maxResults, have both been stored, each
\* under its own key.
DistinctRequestsDistinctKeysWitness ==
  /\ input[1] = [op |-> "searchBooks", arg |-> Str(<<"a", "b", "_", "5">>),
                 maxResults |-> Num(5)]
  /\ input[2] = [op |-> "searchBooks", arg |-> Str(<<"a", "b">>),
                 maxResults |-> Num(5)]
  /\ DOMAIN cache = {KeyOf(input[1]), KeyOf(input[2])}
  /\ Cardinality(DOMAIN cache) = 2
  /\ last = [op |-> "searchBooks", outcome |-> "succeeded"]

\* Whether a call that begins now is served from the cache, and with what.
Served(b) == IF b.returns THEN <<TRUE, b.result>> ELSE <<FALSE>>

\* That, for the three requests the callers of this specification send.
IdentityRequestsServed ==
  <<Served(searchBooksBegin(Str(<<"a", "b">>), Undefined, Undefined)),
    Served(getAllBooksBegin(Undefined)),
    Served(getBookDetailsBegin(Str(<<"x", "1">>), Undefined))>>

\* The keys of those requests.
IdentityRequestKeys ==
  {SearchKey(Str(<<"a", "b">>), Undefined), allBooksCacheKey,
   bookCacheKey(Str(<<"x", "1">>))}

\* C29: the cache does not depend on the caller's identity.  Whoever is
\* signed in, entries and calls in flight are under the keys of the
\* requests alone; setUserEmail and clearAuthorization leave every entry as
\* it was, and a request that was served from the cache before the identity
\* changed is served after it, with the same result.
CacheIndependentOfIdentity ==
  /\ [](/\ DOMAIN cache \subseteq IdentityRequestKeys
        /\ \A c \in BagToSet(calls) : c.key \in IdentityRequestKeys)
  /\ [][last'.op \in {"setUserEmail", "clearAuthorization"}
          => /\ cache' = cache
             /\ IdentityRequestsServed' = IdentityRequestsServed]_vars

\* A user has just signed in while the cache holds a valid entry, stored
\* by the one request sent so far, before this sign-in; getAllBooks is
\* served from it.
CacheIndependentOfIdentityWitness ==
  /\ last.op = "setUserEmail"
  /\ userEmail = Str(<<"v@x">>)
  /\ calls = EmptyBag
  /\ issued = 1
  /\ getAllBooksBegin(Undefined).returns
  /\ getAllBooksBegin(Undefined).result.fromCache
====
